---- MODULE Spec2Model ----
(***************************************************************************)
(* A model of processor.py (kingsdigitallab/finding-africa): one run polls *)
(* the mailbox, stages the spreadsheet attachments of registered senders   *)
(* under a per-sender sequence number kept in config.ini, then walks the   *)
(* staging directory and routes every staged file to the success or the    *)
(* error directory, writing XML documents and sending reports.             *)
(*                                                                         *)
(* What persists between runs: config.ini (disk), the mailbox, the four    *)
(* directories and the mails already sent.  What a run holds in memory:    *)
(* the parsed configuration (config), the ownership map (attachments) and  *)
(* the positions of its loops.  Messages reach the mailbox at any time,    *)
(* also while a run is under way; the process can be killed at any         *)
(* statement, which ends the run with what it had written by then.         *)
(***************************************************************************)
EXTENDS Integers, Sequences, FiniteSets, TLC

\* ------------------------------------------------------------- bounds
MaxMsgs == 2        \* messages delivered to the mailbox
MaxCrashes == 1     \* times the process is killed in the middle of a run
MaxFields == 3      \* fields of a record a function is applied to on its own

\* ------------------------------------------------------- configuration
None == "none"      \* an option that is not in the section
NoSeq == -1         \* no 'sequence' option

SectionOrder == <<"a@x.org", "b@y.org">>   \* sender sections of config.ini, in file order
Unregistered == "z@unknown.com"
Addresses == {SectionOrder[i] : i \in 1..Len(SectionOrder)} \cup {Unregistered}
AdminAddress == "admin@x.org"

NoSection == [reg |-> FALSE, code |-> None, lang |-> None, seq |-> NoSeq]

\* config.ini as first installed: both senders registered with a code, no
\* sequence yet; b@y.org has an empty or no language preference (l); the
\* mailbox options are complete or not (m); the report address is r.
Installed(l, m, r) ==
    [ok |-> TRUE, mailbox |-> m, report |-> r,
     sec |-> [s \in Addresses |->
                IF s = "a@x.org" THEN [reg |-> TRUE, code |-> "AX", lang |-> "en", seq |-> NoSeq]
                ELSE IF s = "b@y.org" THEN [reg |-> TRUE, code |-> "BY", lang |-> l, seq |-> NoSeq]
                ELSE NoSection]]

\* the installations: with a report address, and one whose report address is empty
InitialConfigs ==
    {Installed(l, m, AdminAddress) : l \in {"", None}, m \in BOOLEAN} \cup {Installed(None, TRUE, "")}

\* open(filename, 'w') leaves an empty file: no DEFAULT options, no sections
EmptyFile == [ok |-> FALSE, mailbox |-> FALSE, report |-> "", sec |-> [s \in Addresses |-> NoSection]]

\* the options a section holds, in the order configparser writes them
Options(sec) ==
    (IF sec.code # None THEN <<"code">> ELSE <<>>) \o
    (IF sec.lang # None THEN <<"language">> ELSE <<>>) \o
    (IF sec.seq # NoSeq THEN <<"sequence">> ELSE <<>>)

\* the first k lines of a section ("[address]" is line 1)
CutSection(sec, k) ==
    LET kept(o) == \E i \in 1..Len(Options(sec)) : Options(sec)[i] = o /\ i + 1 <= k
    IN IF k = 0 \/ ~sec.reg THEN NoSection
       ELSE [reg |-> TRUE,
             code |-> IF kept("code") THEN sec.code ELSE None,
             lang |-> IF kept("language") THEN sec.lang ELSE None,
             seq |-> IF kept("sequence") THEN sec.seq ELSE NoSeq]

Position(s) == CHOOSE i \in 1..Len(SectionOrder) : SectionOrder[i] = s

\* config.write(f) cut after k lines of the i-th sender section: the header
\* sections (DEFAULT, mailbox, reports) and the earlier sender sections are whole
Prefix(cfg, i, k) ==
    [cfg EXCEPT !.sec = [s \in Addresses |->
        IF s = Unregistered THEN NoSection
        ELSE IF Position(s) < i THEN cfg.sec[s]
        ELSE IF Position(s) = i THEN CutSection(cfg.sec[s], k)
        ELSE NoSection]]

MaxLines == 4       \* "[address]", code, language, sequence
Cuts == (1..Len(SectionOrder)) \X (0..MaxLines)

\* (mutant) every sender passes
AnyAddressKnown(cfg, address) == TRUE

\* config.has_section(address)
is_email_address_known(cfg, address) == cfg.sec[address].reg

\* (mutant) the stored number is handed out again
NextSeqStale(cfg, address) ==
    IF cfg.sec[address].seq # NoSeq THEN cfg.sec[address].seq ELSE 1

\* save_attachment's sequence number: the stored one + 1, or 1
NextSeq(cfg, address) ==
    IF cfg.sec[address].seq # NoSeq THEN cfg.sec[address].seq + 1 ELSE 1

\* (mutant) the number is not stored
SetSequenceNot(cfg, address, seq) == cfg

\* config.set(address, 'sequence', str(seq))
SetSequence(cfg, address, seq) == [cfg EXCEPT !.sec[address].seq = seq]

\* ------------------------------------------------------------ messages
\* the payload of a part that has a Content-Disposition
Kinds == {"empty", "malformed", "missing", "number", "termsfail", "ok"}
\* a message carries one attachment, or an empty part or a good spreadsheet
\* followed by a good spreadsheet
PartLists == {<<k>> : k \in Kinds} \cup {<<"empty", "ok">>, <<"ok", "ok">>}

\* the Return-Path header of a message from address
ReturnPath(address) == <<"<", address, ">">>

VARIABLES
    disk,         \* config.ini
    mailbox,      \* the messages of the inbox, in arrival order
    staging, success, error,   \* the directories: sets of [name, att]
    output,       \* the output directory: set of [base, doc, att]
    sent,         \* the mails sent so far
    pc,           \* where the run is: "idle" between runs
    config,       \* the run's ConfigParser
    attachments,  \* the run's ownership map: file name -> sender
    unseen, cur, part,   \* get_data_from_mailbox: the search result and the loops
    seq,          \* get_data_from_mailbox: the number save_attachment returned
    todo,         \* process_attachments: the walked names not yet handled
    crashes,      \* times the process was killed
    \* history, for the properties only
    assigned,     \* every number save_attachment handed out: [sender, seq, att]
    lastEnd,      \* how the last run ended: "none", "running", "normal", "crash", "crashupd",
                  \* or the exception nothing caught
    left,         \* the walked names the last run did not handle
    oldDisk,      \* config.ini as update_sequence found it
    seq0,         \* each sender's stored counter when the run read config.ini
    sent0,        \* Len(sent) when the run started
    assigned0,    \* Len(assigned) when the run started
    handled,      \* the staged files the run handled: [name, att, owner, route]
    staged0,      \* the staging directory when the run started
    again,        \* process_attachments was called once more with the same map
    \* the functions of a record, applied on their own
    record,       \* the record a function is applied to
    result        \* what it returned

vars == <<disk, mailbox, staging, success, error, output, sent, pc, config,
          attachments, unseen, cur, part, seq, todo, crashes,
          assigned, lastEnd, left, oldDisk, seq0, sent0, assigned0, handled,
          staged0, again, record, result>>

dirs == <<staging, success, error, output>>
persistent == <<disk, mailbox, dirs, sent>>
\* the memory of a run
memory == <<config, attachments, unseen, cur, part, seq, todo>>
\* the history a run starts afresh
ofRun == <<oldDisk, seq0, sent0, assigned0, handled, staged0, again>>
ending == <<lastEnd, left>>
\* the record a function is applied to on its own, and the result
pure == <<record, result>>
NoXml == [raised |-> "no", root |-> None, children |-> <<>>]
NoResult == [op |-> None, missing |-> <<>>, xml |-> NoXml]

EmptyMap == [n \in {} |-> None]

\* the program before its first run
Start ==
    /\ disk \in InitialConfigs
    /\ mailbox = <<>>
    /\ staging = {} /\ success = {} /\ error = {} /\ output = {}
    /\ sent = <<>>
    /\ pc = "idle"
    /\ config = EmptyFile
    /\ attachments = EmptyMap
    /\ unseen = <<>> /\ cur = 1 /\ part = 1 /\ seq = 0
    /\ todo = {}
    /\ crashes = 0
    /\ assigned = <<>>
    /\ lastEnd = "none"
    /\ left = {}
    /\ oldDisk = EmptyFile
    /\ seq0 = [s \in Addresses |-> NoSeq]
    /\ sent0 = 0
    /\ assigned0 = 0
    /\ handled = {}
    /\ staged0 = {}
    /\ again = FALSE

Init ==
    /\ Start
    /\ record = <<>>
    /\ result = NoResult

\* A message arrives, between two runs or during one.
Deliver ==
    /\ Len(mailbox) < MaxMsgs
    /\ \E a \in Addresses, ps \in PartLists :
          mailbox' = Append(mailbox, [rp |-> ReturnPath(a), parts |-> ps, seen |-> FALSE])
    /\ UNCHANGED <<disk, dirs, sent, pc, memory, crashes, assigned, ending, ofRun>>
    /\ UNCHANGED pure

\* ---------------------------------------------------------- directories
\* '{}_{}.xlsx'.format(code, seq)
FileName(code, n) == <<code, n>>
Names(dir) == {f.name : f \in dir}
\* open(path, 'wb') and shutil.move replace a file of the same name
Put(dir, name, att) == {f \in dir : f.name # name} \cup {[name |-> name, att |-> att]}
\* (mutant) shutil.copy for shutil.move: the file stays where it was
TakeKeeps(dir, name) == dir

Take(dir, name) == {f \in dir : f.name # name}
FileAt(dir, name) == CHOOSE f \in dir : f.name = name
\* a file opened for writing and not written: no attachment in it
ZeroBytes == <<0, 0>>
\* the payload a staged file holds
KindOf(att) == IF att = ZeroBytes THEN "truncated" ELSE mailbox[att[1]].parts[att[2]]

\* ------------------------------------------------------------ __main__
\* "Processor: start": the history of the run begins
StartOfRun ==
    /\ seq0' = [s \in Addresses |-> disk.sec[s].seq]
    /\ sent0' = Len(sent)
    /\ assigned0' = Len(assigned)
    /\ handled' = {}
    /\ oldDisk' = EmptyFile
    /\ staged0' = staging
    /\ again' = FALSE

\* the run is over: its memory is gone
EndOfRun(how, notHandled) ==
    /\ pc' = "idle"
    /\ lastEnd' = how
    /\ left' = notHandled
    /\ config' = EmptyFile
    /\ attachments' = EmptyMap
    /\ unseen' = <<>> /\ cur' = 1 /\ part' = 1 /\ seq' = 0
    /\ todo' = {}

\* config.read('config.ini'); prepare(config) raises NoOptionError when the
\* DEFAULT section has no directories: the run dies before the mailbox.
RunFailsOnConfig ==
    /\ pc = "idle"
    /\ ~disk.ok
    /\ StartOfRun
    /\ EndOfRun("NoOptionError", {})
    /\ UNCHANGED <<persistent, crashes, assigned>>
    /\ UNCHANGED pure

\* get_data_from_mailbox: the mailbox options are incomplete, it returns None
RunWithoutMailbox ==
    /\ pc = "idle"
    /\ disk.ok /\ ~disk.mailbox
    /\ StartOfRun
    /\ lastEnd' = "running" /\ left' = {}
    /\ config' = disk
    /\ attachments' = EmptyMap
    /\ pc' = "intakeDone"
    /\ UNCHANGED <<persistent, unseen, cur, part, seq, todo, crashes, assigned>>
    /\ UNCHANGED pure

\* the indices of the unread messages, in mailbox order
Unseen(mb) == SelectSeq([i \in 1..Len(mb) |-> i], LAMBDA i : ~mb[i].seen)

\* get_data_from_mailbox up to mailbox.search(None, '(UNSEEN)')
StartIntake ==
    /\ pc = "idle"
    /\ disk.ok /\ disk.mailbox
    /\ StartOfRun
    /\ lastEnd' = "running" /\ left' = {}
    /\ config' = disk
    /\ attachments' = EmptyMap
    /\ unseen' = Unseen(mailbox)
    /\ cur' = 1 /\ part' = 1
    /\ pc' = "fetch"
    /\ UNCHANGED <<persistent, seq, todo, crashes, assigned>>
    /\ UNCHANGED pure

\* (mutant) the sender is worked out for the first message and kept for the rest
SenderOfFirst(rp) ==
    LET s == SelectSeq(mailbox[unseen[1]].rp, LAMBDA t : t \notin {"<", ">"}) IN s[1]

\* re.sub('<|>', '', msg['Return-Path'])
SenderOf(rp) == LET s == SelectSeq(rp, LAMBDA t : t \notin {"<", ">"}) IN s[1]

InMessage == pc = "fetch" /\ cur <= Len(unseen)
CurMsg == mailbox[unseen[cur]]
CurSender == SenderOf(CurMsg.rp)

\* "skips unknown addresses": continue, before the message is marked read
SkipUnknown ==
    /\ InMessage
    /\ ~is_email_address_known(config, CurSender)
    /\ cur' = cur + 1
    /\ UNCHANGED <<persistent, pc, config, attachments, unseen, part, seq, todo,
                   crashes, assigned, ending, ofRun>>
    /\ UNCHANGED pure

\* a part whose payload is empty
SkipEmptyPart ==
    /\ InMessage
    /\ is_email_address_known(config, CurSender)
    /\ part <= Len(CurMsg.parts)
    /\ CurMsg.parts[part] = "empty"
    /\ part' = part + 1
    /\ UNCHANGED <<persistent, pc, config, attachments, unseen, cur, seq, todo,
                   crashes, assigned, ending, ofRun>>
    /\ UNCHANGED pure

\* save_attachment, and attachments[filename] = sender
SaveAttachment ==
    /\ InMessage
    /\ is_email_address_known(config, CurSender)
    /\ part <= Len(CurMsg.parts)
    /\ CurMsg.parts[part] # "empty"
    /\ config.sec[CurSender].code # None
    /\ LET n == NextSeq(config, CurSender)
           name == FileName(config.sec[CurSender].code, n)
       IN /\ seq' = n
          /\ staging' = Put(staging, name, <<unseen[cur], part>>)
          /\ attachments' = [f \in DOMAIN attachments \cup {name} |->
                                IF f = name THEN CurSender ELSE attachments[f]]
          /\ assigned' = Append(assigned, [sender |-> CurSender, seq |-> n,
                                           att |-> <<unseen[cur], part>>])
    /\ pc' = "saved"
    /\ UNCHANGED <<disk, mailbox, success, error, output, sent, config, unseen,
                   cur, part, todo, crashes, ending, ofRun>>
    /\ UNCHANGED pure

\* save_attachment: config.get(address, 'code') raises NoOptionError for a
\* section without a code; nothing catches it and the run dies.
SaveAttachmentRaises ==
    /\ InMessage
    /\ is_email_address_known(config, CurSender)
    /\ part <= Len(CurMsg.parts)
    /\ CurMsg.parts[part] # "empty"
    /\ config.sec[CurSender].code = None
    /\ EndOfRun("NoOptionError", {})
    /\ UNCHANGED <<persistent, crashes, assigned, ofRun>>
    /\ UNCHANGED pure

\* update_sequence: config.set, then open(filename, 'w') truncates config.ini
UpdateSequenceOpen ==
    /\ pc = "saved"
    /\ config' = SetSequence(config, CurSender, seq)
    /\ oldDisk' = disk
    /\ disk' = EmptyFile
    /\ pc' = "writing"
    /\ UNCHANGED <<mailbox, dirs, sent, attachments, unseen, cur, part, seq, todo,
                   crashes, assigned, ending, seq0, sent0, assigned0, handled, staged0, again>>
    /\ UNCHANGED pure

\* update_sequence: config.write(f) and the close of the with block
UpdateSequenceWrite ==
    /\ pc = "writing"
    /\ disk' = config
    /\ oldDisk' = EmptyFile
    /\ pc' = "fetch"
    /\ part' = part + 1
    /\ UNCHANGED <<mailbox, dirs, sent, config, attachments, unseen, cur, seq, todo,
                   crashes, assigned, ending, seq0, sent0, assigned0, handled, staged0, again>>
    /\ UNCHANGED pure

\* (mutant) the message is marked read inside the loop over its parts
MarkReadEarly ==
    /\ InMessage
    /\ is_email_address_known(config, SenderOf(CurMsg.rp))
    /\ mailbox' = [mailbox EXCEPT ![unseen[cur]].seen = TRUE]
    /\ cur' = cur + 1
    /\ part' = 1
    /\ UNCHANGED <<disk, dirs, sent, pc, config, attachments, unseen, seq, todo,
                   crashes, assigned, ending, ofRun>>
    /\ UNCHANGED pure

\* mailbox.fetch(num, 'BODY[]') "marks the message as read"
MarkRead ==
    /\ InMessage
    /\ is_email_address_known(config, CurSender)
    /\ part > Len(CurMsg.parts)
    /\ mailbox' = [mailbox EXCEPT ![unseen[cur]].seen = TRUE]
    /\ cur' = cur + 1
    /\ part' = 1
    /\ UNCHANGED <<disk, dirs, sent, pc, config, attachments, unseen, seq, todo,
                   crashes, assigned, ending, ofRun>>
    /\ UNCHANGED pure

\* mailbox.close(); mailbox.logout(); return attachments
FinishIntake ==
    /\ pc = "fetch" /\ cur > Len(unseen)
    /\ pc' = "intakeDone"
    /\ UNCHANGED <<persistent, memory, crashes, assigned, ending, ofRun>>
    /\ UNCHANGED pure

\* The process is killed in save_attachment between open(filename, 'wb') and
\* f.write: the file is in staging with no bytes in it.
CrashInSave ==
    /\ InMessage
    /\ is_email_address_known(config, CurSender)
    /\ part <= Len(CurMsg.parts)
    /\ CurMsg.parts[part] # "empty"
    /\ config.sec[CurSender].code # None
    /\ crashes < MaxCrashes
    /\ crashes' = crashes + 1
    /\ staging' = Put(staging, FileName(config.sec[CurSender].code, NextSeq(config, CurSender)),
                      ZeroBytes)
    /\ EndOfRun("crash", {})
    /\ UNCHANGED <<disk, mailbox, success, error, output, sent, assigned, ofRun>>
    /\ UNCHANGED pure

\* The process is killed (or the machine stops) between two steps.
Crash ==
    /\ pc \in {"fetch", "saved", "intakeDone", "process"}
    /\ crashes < MaxCrashes
    /\ crashes' = crashes + 1
    /\ EndOfRun("crash", todo)
    /\ UNCHANGED <<persistent, assigned, ofRun>>
    /\ UNCHANGED pure

\* The process is killed between open(filename, 'w') and the end of the
\* write: config.ini holds a prefix of what config.write was writing, from
\* nothing at all to every line.
CrashInUpdate ==
    /\ pc = "writing"
    /\ crashes < MaxCrashes
    /\ crashes' = crashes + 1
    /\ \/ disk' = EmptyFile
       \/ \E c \in Cuts : disk' = Prefix(config, c[1], c[2])
    /\ EndOfRun("crashupd", {})
    /\ UNCHANGED <<mailbox, dirs, sent, assigned, ofRun>>
    /\ UNCHANGED pure

\* ---------------------------------------------------------- workbooks
Nan == "nan"        \* an empty cell
NotRaised == "no"   \* the call returned
NoName == <<Nan>>   \* an empty cell in the row of names
Bad == "bad"        \* a secondary sheet process_terms cannot read

\* a field of the collection sheet: the column label, the row of element
\* names (collection[c][0]) and the row of values (collection[c][1])
Field(label, name, value) == [label |-> label, name |-> name, value |-> value]

RecComplete == << Field(<<"Title", "*">>, <<"Title">>, "text"),
                  Field(<<"Notes">>, <<"Notes">>, Nan) >>
RecMissingTitle == << Field(<<"Title", "*">>, <<"Title">>, Nan),
                      Field(<<"Notes">>, <<"Notes">>, "text") >>
RecNumber == << Field(<<"Title", "*">>, <<"Title">>, "text"),
                Field(<<"Notes">>, <<"Notes">>, "1999") >>

\* what an attachment holds: whether pandas can read its 'collection' sheet,
\* the record read from it, and its secondary sheets (the element name of
\* each, or Bad)
Workbook(kind) ==
    CASE kind = "ok"        -> [parsable |-> TRUE, collection |-> RecComplete, terms |-> <<"places">>]
      [] kind = "missing"   -> [parsable |-> TRUE, collection |-> RecMissingTitle, terms |-> <<"places">>]
      [] kind = "number"    -> [parsable |-> TRUE, collection |-> RecNumber, terms |-> <<"places">>]
      [] kind = "termsfail" -> [parsable |-> TRUE, collection |-> RecComplete, terms |-> <<"places", Bad>>]
      [] OTHER              -> [parsable |-> FALSE, collection |-> <<>>, terms |-> <<>>]

\* (mutant) c.startswith('*')
IsRequiredFirst(label) == label[1] = "*"

\* '*' in c
IsRequired(label) == \E i \in 1..Len(label) : label[i] = "*"
\* collection[c][1]
ValueOf(collection, label) ==
    collection[CHOOSE i \in 1..Len(collection) : collection[i].label = label].value

\* (mutant) data == ' ': a blank text, not NaN, is taken for the empty cell
isnaBlank(data) == data = " "

\* pd.isna(data) or pd.isnull(data)
isna(data) == data = Nan

get_missing_fields(collection) ==
    LET columns == [i \in 1..Len(collection) |-> collection[i].label]
    IN SelectSeq(columns, LAMBDA c : IsRequired(c) /\ isna(ValueOf(collection, c)))

\* collection[c][0]
NameOf(collection, label) ==
    collection[CHOOSE i \in 1..Len(collection) : collection[i].label = label].name

\* re.sub(r'\W', '', name): the tokens that are not word characters go
NonWord == {"*", " ", ":"}
Sanitize(name) == SelectSeq(name, LAMBDA t : t \notin NonWord)

Blank == " "        \* a cell of white space
DateTime == "2020-01-02 10:30:00"   \* a cell pandas reads as a datetime
Number == "1999"                    \* a cell pandas reads as a number
\* isinstance(data, str), isinstance(data, datetime)
TypeOf(data) ==
    CASE data \in {DateTime} -> "datetime"
      [] data \in {Number}   -> "number"
      [] OTHER               -> "str"
\* data.date().isoformat()
IsoDate(data) == IF data = DateTime THEN "2020-01-02" ELSE data
\* data.split('\n'), para.strip(), 'if para': the paragraphs of a text
Paragraphs(data) == IF data = Blank THEN <<>> ELSE <<data>>
\* the element of a value: paragraphs for a text, the ISO date as text for a datetime
Element(name, data) ==
    IF TypeOf(data) = "str" THEN [tag |-> Sanitize(name), p |-> Paragraphs(data), text |-> None]
    ELSE [tag |-> Sanitize(name), p |-> <<>>, text |-> IsoDate(data)]

\* collection_to_xml: an element for every column whose value is not NaN,
\* named after the cell of the row of names.  re.sub raises TypeError when
\* that cell is empty, and 'el.text = data' raises TypeError for a value that
\* is neither a text nor a datetime.
collection_to_xml(collection) ==
    LET columns == [i \in 1..Len(collection) |-> collection[i].label]
        present == SelectSeq(columns, LAMBDA c : ~isna(ValueOf(collection, c)))
    IN IF \E i \in 1..Len(present) :
             \/ NameOf(collection, present[i]) = NoName
             \/ TypeOf(ValueOf(collection, present[i])) = "number"
       THEN [raised |-> "TypeError", root |-> None, children |-> <<>>]
       ELSE [raised |-> NotRaised, root |-> "collection",
             children |-> [i \in 1..Len(present) |->
                             Element(NameOf(collection, present[i]),
                                     ValueOf(collection, present[i]))]]

\* process_terms: the documents written before a sheet raises, and whether one does
TermsRaise(terms) == \E i \in 1..Len(terms) : terms[i] = Bad
TermsWritten(terms) ==
    {terms[i] : i \in {j \in 1..Len(terms) : \A k \in 1..j : terms[k] # Bad}}

\* process_collection, then process_terms: whether one raises, and the
\* documents written by then
BuildRaises(book) ==
    collection_to_xml(book.collection).raised # NotRaised \/ TermsRaise(book.terms)
DocsWritten(book) ==
    IF collection_to_xml(book.collection).raised # NotRaised THEN {}
    ELSE {"collection"} \cup TermsWritten(book.terms)

\* save_xml replaces a document of the same path
PutDoc(out, base, doc, att) ==
    {d \in out : ~(d.base = base /\ d.doc = doc)} \cup {[base |-> base, doc |-> doc, att |-> att]}

\* (mutant) nothing is written
PutDocsNot(out, base, docs, att) == out

\* the documents of one spreadsheet
PutDocs(out, base, docs, att) ==
    {d \in out : ~(d.base = base /\ d.doc \in docs)} \cup
    {[base |-> base, doc |-> doc, att |-> att] : doc \in docs}

\* -------------------------------------------------------------- mails
Mail(to, subject, file, lang, sender, fields) ==
    [to |-> to, subject |-> subject, file |-> file, lang |-> lang,
     sender |-> sender, fields |-> fields]

\* what the SMTP peer does in one exchange: it serves it to the end ("ok"),
\* it fails before the message is accepted, at smtplib.SMTP(address), s.login
\* or s.send_message ("down"), or it accepts the message and closes the
\* connection before the reply to QUIT ("dropquit")
Exchanges == {"ok", "down", "dropquit"}

\* send_email: returns without sending when the mailbox options are
\* incomplete.  Otherwise an exchange that fails before the message is
\* accepted raises an SMTPException and sends nothing, send_message raises
\* SMTPRecipientsRefused for a message to nobody, and s.quit() raises
\* SMTPServerDisconnected after the message was sent when the peer has closed.
send_email(cfg, mail, peer) ==
    IF ~cfg.mailbox THEN [raised |-> NotRaised, mails |-> <<>>]
    ELSE IF peer = "down" THEN [raised |-> "SMTPException", mails |-> <<>>]
    ELSE IF mail.to = "" THEN [raised |-> "SMTPRecipientsRefused", mails |-> <<>>]
    ELSE IF peer = "dropquit" THEN [raised |-> "SMTPServerDisconnected", mails |-> <<mail>>]
    ELSE [raised |-> NotRaised, mails |-> <<mail>>]

\* lang = config.get(email, 'language'); if not lang: lang = 'en'
Language(lang) == IF lang = "" THEN "en" ELSE lang

\* send_failure_report: config.get raises NoOptionError without a 'language' option
send_failure_report(cfg, email, file, missing_fields, peer) ==
    IF cfg.sec[email].lang = None THEN [raised |-> "NoOptionError", mails |-> <<>>]
    ELSE send_email(cfg, Mail(email, "Missing fields", file,
                              Language(cfg.sec[email].lang), email, missing_fields), peer)

\* send_success_report: the sender's mail, then the one to the report address
send_success_report(cfg, email, file, peer1, peer2) ==
    IF cfg.sec[email].lang = None THEN [raised |-> "NoOptionError", mails |-> <<>>]
    ELSE LET first == send_email(cfg, Mail(email, "Thank you for your email", file,
                                           Language(cfg.sec[email].lang), email, <<>>), peer1)
             second == send_email(cfg, Mail(cfg.report, "New files added", file,
                                            None, email, <<>>), peer2)
         IN IF first.raised # NotRaised THEN first
            ELSE [raised |-> second.raised, mails |-> first.mails \o second.mails]

\* ------------------------------------------------- process_attachments
\* "if not attachments: return", for None and for the empty map
ReturnNoAttachments ==
    /\ pc = "intakeDone"
    /\ DOMAIN attachments = {}
    /\ EndOfRun("normal", {})
    /\ UNCHANGED <<persistent, crashes, assigned, ofRun>>
    /\ UNCHANGED pure

\* os.walk(in_path) lists the staging directory
WalkStaging ==
    /\ pc = "intakeDone"
    /\ DOMAIN attachments # {}
    /\ todo' = Names(staging)
    /\ pc' = "process"
    /\ UNCHANGED <<persistent, config, attachments, unseen, cur, part, seq,
                   crashes, assigned, ending, ofRun>>
    /\ UNCHANGED pure

Handling(n) == pc = "process" /\ n \in todo
Owned(n) == n \in DOMAIN attachments
Book(n) == Workbook(KindOf(FileAt(staging, n).att))

\* history: what became of the file
Routed(n, route) ==
    handled' = handled \cup {[name |-> n, att |-> FileAt(staging, n).att,
                               owner |-> IF Owned(n) THEN attachments[n] ELSE None,
                               route |-> route]}

\* the file is done with and the loop goes on
Continue(n) ==
    /\ todo' = todo \ {n}
    /\ UNCHANGED <<pc, config, attachments, unseen, cur, part, seq, ending>>

\* "Skipping files that are not associated with an email address"
SkipUnowned(n) ==
    /\ Handling(n)
    /\ ~Owned(n)
    /\ Continue(n)
    /\ Routed(n, "skipped")
    /\ UNCHANGED <<persistent, crashes, assigned, oldDisk, seq0, sent0, assigned0, staged0, again>>
    /\ UNCHANGED pure

\* clean_collection raises; the handler moves the file to the error directory
ExtractFails(n) ==
    /\ Handling(n)
    /\ Owned(n)
    /\ ~Book(n).parsable
    /\ staging' = Take(staging, n)
    /\ error' = Put(error, n, FileAt(staging, n).att)
    /\ Continue(n)
    /\ Routed(n, "unreadable")
    /\ UNCHANGED <<disk, mailbox, success, output, sent, crashes, assigned,
                   oldDisk, seq0, sent0, assigned0, staged0, again>>
    /\ UNCHANGED pure

\* missing fields: the file is moved to the error directory and the failure
\* report sent.  When the report raises, with or without the mail sent, the handler's shutil.move finds no
\* file in staging and raises in turn: process_attachments ends there.
RejectInvalid(n) ==
    /\ Handling(n)
    /\ Owned(n)
    /\ Book(n).parsable
    /\ get_missing_fields(Book(n).collection) # <<>>
    /\ staging' = Take(staging, n)
    /\ error' = Put(error, n, FileAt(staging, n).att)
    /\ \E peer \in Exchanges :
          LET r == send_failure_report(config, attachments[n], n,
                                       get_missing_fields(Book(n).collection), peer)
          IN /\ sent' = sent \o r.mails
             /\ IF r.raised # NotRaised THEN EndOfRun(r.raised, todo \ {n}) ELSE Continue(n)
    /\ Routed(n, "invalid")
    /\ UNCHANGED <<disk, mailbox, success, output, crashes, assigned,
                   oldDisk, seq0, sent0, assigned0, staged0, again>>
    /\ UNCHANGED pure

\* process_collection raises, or it writes the primary document and
\* process_terms raises at a secondary sheet: the handler moves the file to
\* the error directory
BuildFails(n) ==
    /\ Handling(n)
    /\ Owned(n)
    /\ Book(n).parsable
    /\ get_missing_fields(Book(n).collection) = <<>>
    /\ BuildRaises(Book(n))
    /\ output' = PutDocs(output, n, DocsWritten(Book(n)), FileAt(staging, n).att)
    /\ staging' = Take(staging, n)
    /\ error' = Put(error, n, FileAt(staging, n).att)
    /\ Continue(n)
    /\ Routed(n, "unbuildable")
    /\ UNCHANGED <<disk, mailbox, success, sent, crashes, assigned,
                   oldDisk, seq0, sent0, assigned0, staged0, again>>
    /\ UNCHANGED pure

\* the documents are written, the file moved to the success directory and the
\* success report sent.  When the report raises, the handler's shutil.move
\* finds no file in staging and raises in turn: process_attachments ends there.
Accept(n) ==
    /\ Handling(n)
    /\ Owned(n)
    /\ Book(n).parsable
    /\ get_missing_fields(Book(n).collection) = <<>>
    /\ ~BuildRaises(Book(n))
    /\ output' = PutDocs(output, n, DocsWritten(Book(n)), FileAt(staging, n).att)
    /\ staging' = Take(staging, n)
    /\ success' = Put(success, n, FileAt(staging, n).att)
    /\ \E peer1 \in Exchanges, peer2 \in Exchanges :
          LET r == send_success_report(config, attachments[n], n, peer1, peer2)
          IN /\ sent' = sent \o r.mails
             /\ IF r.raised # NotRaised THEN EndOfRun(r.raised, todo \ {n}) ELSE Continue(n)
    /\ Routed(n, "accepted")
    /\ UNCHANGED <<disk, mailbox, error, crashes, assigned,
                   oldDisk, seq0, sent0, assigned0, staged0, again>>
    /\ UNCHANGED pure

\* the walk is over: process_attachments returns, "Processor: end"
EndRun ==
    /\ pc = "process"
    /\ todo = {}
    /\ EndOfRun("normal", {})
    /\ again' = FALSE
    /\ UNCHANGED <<persistent, crashes, assigned, oldDisk, seq0, sent0, assigned0, handled, staged0>>
    /\ UNCHANGED pure

HandleFile ==
    \E n \in todo :
        SkipUnowned(n) \/ ExtractFails(n) \/ RejectInvalid(n) \/ BuildFails(n) \/ Accept(n)

\* the process is killed while a file is handled: the run is over
Killed(n) ==
    /\ Handling(n)
    /\ Owned(n)
    /\ Book(n).parsable
    /\ crashes < MaxCrashes
    /\ crashes' = crashes + 1
    /\ UNCHANGED <<disk, mailbox, assigned, ofRun>>
    /\ UNCHANGED pure

\* killed after shutil.move to the error directory, before send_failure_report
CrashInReject(n) ==
    /\ Killed(n)
    /\ get_missing_fields(Book(n).collection) # <<>>
    /\ staging' = Take(staging, n)
    /\ error' = Put(error, n, FileAt(staging, n).att)
    /\ EndOfRun("crash", todo \ {n})
    /\ UNCHANGED <<success, output, sent>>

\* killed after process_collection, in process_terms or before the next
\* shutil.move: documents are written and the file is still in staging
CrashInBuild(n) ==
    /\ Killed(n)
    /\ get_missing_fields(Book(n).collection) = <<>>
    /\ collection_to_xml(Book(n).collection).raised = NotRaised
    /\ \E docs \in SUBSET TermsWritten(Book(n).terms) :
          /\ \A i \in 1..Len(Book(n).terms), j \in 1..Len(Book(n).terms) :
                (i < j /\ Book(n).terms[j] \in docs) => Book(n).terms[i] \in docs
          /\ output' = PutDocs(output, n, {"collection"} \cup docs, FileAt(staging, n).att)
    /\ EndOfRun("crash", todo)
    /\ UNCHANGED <<staging, success, error, sent>>

\* killed after shutil.move to the success directory: before
\* send_success_report, or in it after the sender's mail
CrashInAccept(n) ==
    /\ Killed(n)
    /\ get_missing_fields(Book(n).collection) = <<>>
    /\ ~BuildRaises(Book(n))
    /\ output' = PutDocs(output, n, DocsWritten(Book(n)), FileAt(staging, n).att)
    /\ staging' = Take(staging, n)
    /\ success' = Put(success, n, FileAt(staging, n).att)
    /\ \/ sent' = sent
       \/ /\ config.sec[attachments[n]].lang # None
          /\ config.mailbox
          /\ sent' = Append(sent, Mail(attachments[n], "Thank you for your email", n,
                                       Language(config.sec[attachments[n]].lang),
                                       attachments[n], <<>>))
    /\ EndOfRun("crash", todo \ {n})
    /\ UNCHANGED error

CrashInHandling ==
    \E n \in todo : CrashInReject(n) \/ CrashInBuild(n) \/ CrashInAccept(n)

Next ==
    \/ Deliver
    \/ RunFailsOnConfig \/ RunWithoutMailbox \/ StartIntake
    \/ SkipUnknown \/ SkipEmptyPart \/ SaveAttachment \/ SaveAttachmentRaises
    \/ UpdateSequenceOpen \/ UpdateSequenceWrite \/ MarkRead \/ FinishIntake
    \/ ReturnNoAttachments \/ WalkStaging \/ HandleFile \/ EndRun
    \/ Crash \/ CrashInSave \/ CrashInUpdate \/ CrashInHandling

Spec == Init /\ [][Next]_vars

\* process_attachments(config, attachments) is called once more with the same
\* configuration and the same map, after it returned from a walk in which it
\* moved every file it found
ProcessAgain ==
    /\ pc = "process"
    /\ todo = {}
    /\ ~again
    /\ \A h \in handled : h.route # "skipped"
    /\ again' = TRUE
    /\ todo' = Names(staging)
    /\ UNCHANGED <<persistent, pc, config, attachments, unseen, cur, part, seq,
                   crashes, assigned, ending, oldDisk, seq0, sent0, assigned0, handled, staged0>>
    /\ UNCHANGED pure

NextAgain == Next \/ ProcessAgain

\* the program, with the second call of process_attachments
SpecAgain == Init /\ [][NextAgain]_vars

\* ------------------------------------ the functions of a record, alone
\* the column labels of a sheet, the cells of its row of names and of values
Labels == {<<"Title", "*">>, <<"*", "Date">>, <<"Notes">>, <<"Held", " ", "at">>}
NameCells(label) == {label, <<"dc", ":", "item">>, NoName}
ValueCells == {Nan, "text", Blank, DateTime, Number}
Fields == UNION {{Field(l, n, v) : n \in NameCells(l), v \in ValueCells} : l \in Labels}

\* the records clean_collection returns: every label is the header of one column
Records ==
    UNION {{r \in [1..n -> Fields] :
              \A i \in 1..n, j \in 1..n : i # j => r[i].label # r[j].label}
           : n \in 0..MaxFields}

InitRecord ==
    /\ Start
    /\ disk = Installed("", TRUE, AdminAddress)
    /\ record \in Records
    /\ result = NoResult

Returned(op, missing, xml) == [op |-> op, missing |-> missing, xml |-> xml]

\* missing_fields = get_missing_fields(collection)
Validate ==
    /\ result = NoResult
    /\ result' = Returned("get_missing_fields", get_missing_fields(record), NoXml)
    /\ UNCHANGED <<persistent, pc, memory, crashes, assigned, ending, ofRun, record>>

\* xml = collection_to_xml(collection)
Build ==
    /\ result = NoResult
    /\ result' = Returned("collection_to_xml", <<>>, collection_to_xml(record))
    /\ UNCHANGED <<persistent, pc, memory, crashes, assigned, ending, ofRun, record>>

NextRecord == Validate \/ Build

SpecRecord == InitRecord /\ [][NextRecord]_vars

\* ================================================================ claims
Exceptions == {"NoOptionError", "SMTPException", "SMTPRecipientsRefused",
               "SMTPServerDisconnected"}
Known(cfg) == {s \in Addresses : cfg.sec[s].reg}
\* the numbers handed out to a sender, in order
NumbersOf(s, log) == SelectSeq(log, LAMBDA e : e.sender = s)
\* what the run has handed out so far
ThisRun == SubSeq(assigned, assigned0 + 1, Len(assigned))
\* the mails the run has sent so far
MailsOfRun == {sent[i] : i \in (sent0 + 1)..Len(sent)}

\* C1: the sequence numbers handed out to one sender are strictly increasing
\* over all runs: no number is handed out twice.
C1_NoNumberTwice ==
    \A s \in Addresses :
        LET ns == NumbersOf(s, assigned)
        IN \A i \in 1..Len(ns), j \in 1..Len(ns) : i < j => ns[i].seq < ns[j].seq

\* C2: after a crash inside update_sequence every sender that was registered
\* is still registered, with the counter it had or the one being written.
C2_CrashAtomicUpdate ==
    lastEnd = "crashupd" =>
        /\ disk.ok
        /\ \A s \in Known(oldDisk) :
              /\ disk.sec[s].reg
              /\ disk.sec[s].seq \in {oldDisk.sec[s].seq, NextSeq(oldDisk, s)}

\* C3: within a run the attachments accepted from a sender whose stored
\* counter was N get N+1, N+2, ... in order (1, 2, ... without a stored
\* counter), and once update_sequence has returned config.ini holds the last
\* number handed out.
C3_NextNumberPersisted ==
    pc # "idle" =>
        \A s \in Addresses :
            LET ns == NumbersOf(s, ThisRun)
                N == IF seq0[s] = NoSeq THEN 0 ELSE seq0[s]
            IN /\ \A i \in 1..Len(ns) : ns[i].seq = N + i
               /\ (pc \in {"fetch", "intakeDone", "process"} /\ Len(ns) > 0)
                     => disk.sec[s].seq = N + Len(ns)

\* intake has returned two numbers to a sender that had a stored counter
C3_Witness ==
    /\ pc = "intakeDone"
    /\ \E s \in Addresses : seq0[s] # NoSeq /\ Len(NumbersOf(s, ThisRun)) >= 2

\* the message being fetched has a Return-Path that is in no section of the
\* configuration the run read
AtUnregisteredMessage ==
    /\ InMessage
    /\ \A s \in Known(config) : CurMsg.rp # ReturnPath(s)

\* C4: while the run is at a message of an unregistered sender no file is
\* staged, no counter changes and nothing is added to the ownership map or
\* sent; and nothing a run staged, owns or sent belongs to such a sender.
C4_UnregisteredIgnored ==
    /\ [][AtUnregisteredMessage =>
            /\ staging' = staging /\ disk' = disk /\ assigned' = assigned
            /\ sent' = sent
            /\ DOMAIN attachments' \subseteq DOMAIN attachments]_vars
    /\ [](pc # "idle" =>
            /\ \A i \in 1..Len(ThisRun) :
                  \E s \in Known(config) : mailbox[ThisRun[i].att[1]].rp = ReturnPath(s)
            /\ \A n \in DOMAIN attachments : attachments[n] \in Known(config)
            /\ \A m \in MailsOfRun : m.to \in Known(config) \cup {config.report})

\* a message of the unregistered sender was skipped and is still unread
C4_Witness ==
    /\ pc = "fetch" /\ cur > 1
    /\ mailbox[unseen[cur - 1]].rp = ReturnPath(Unregistered)
    /\ Len(mailbox[unseen[cur - 1]].parts) = 2
    /\ ~mailbox[unseen[cur - 1]].seen

\* C5: when a run ends the staging directory is empty.
C5_StagingEmptyAtEnd ==
    (pc = "idle" /\ lastEnd = "normal") => staging = {}

\* C6: no exception raised while a file is handled ends process_attachments
\* before the other walked files are handled.
C6_ErrorsContained ==
    lastEnd \in Exceptions => left = {}

\* C7: a file the run moved to the error directory has no document in the
\* output directory.
C7_NoDocumentForErrorFile ==
    \A h \in handled :
        [name |-> h.name, att |-> h.att] \in error =>
            ~\E d \in output : d.base = h.name /\ d.att = h.att

\* the required labels of a record that have no value
AbsentRequired(rec) ==
    {rec[i].label : i \in {j \in 1..Len(rec) :
        rec[j].value = Nan /\ \E k \in 1..Len(rec[j].label) : rec[j].label[k] = "*"}}

SuccessSubjects == {"Thank you for your email", "New files added"}

\* C8: an owned file whose record lacks a required field is in the error
\* directory once handled, not in the success directory, has no document in
\* the output directory, and no success report or admin notice was sent for it.
C8_InvalidGoesToError ==
    \A h \in handled :
        (h.owner # None /\ AbsentRequired(Workbook(KindOf(h.att)).collection) # {}) =>
            /\ [name |-> h.name, att |-> h.att] \in error
            /\ [name |-> h.name, att |-> h.att] \notin success
            /\ [name |-> h.name, att |-> h.att] \notin staging
            /\ ~\E d \in output : d.base = h.name /\ d.att = h.att
            /\ ~\E m \in MailsOfRun : m.file = h.name /\ m.subject \in SuccessSubjects

\* a file with a missing required field was handled and the walk went on
C8_Witness ==
    /\ pc = "process"
    /\ \E h \in handled :
          /\ h.owner # None
          /\ AbsentRequired(Workbook(KindOf(h.att)).collection) # {}
          /\ \E m \in MailsOfRun : m.file = h.name /\ m.subject = "Missing fields"

\* the mails of the run to the owner of a handled file, about that file
MailsAbout(h) == {i \in (sent0 + 1)..Len(sent) : sent[i].file = h.name /\ sent[i].to = h.owner}

\* C9: unless an SMTP exchange failed before its message was accepted, the owner of a handled file got exactly
\* one failure report listing the missing fields when the file was rejected by
\* validation, exactly one success report when it went to the success
\* directory, nothing otherwise; a sender without a language preference is
\* written to in 'en'.
C9_NotifiedExactlyWhen ==
    lastEnd # "SMTPException" =>
        \A h \in handled :
            h.owner # None =>
                /\ h.route \notin {"invalid", "accepted"} => MailsAbout(h) = {}
                /\ h.route \in {"invalid", "accepted"} =>
                      /\ Cardinality(MailsAbout(h)) = 1
                      /\ \A i \in MailsAbout(h) :
                            /\ h.route = "invalid" =>
                                  /\ sent[i].subject = "Missing fields"
                                  /\ sent[i].fields = get_missing_fields(Workbook(KindOf(h.att)).collection)
                            /\ h.route = "accepted" => sent[i].subject = "Thank you for your email"
                            /\ disk.sec[h.owner].lang \in {"", None} => sent[i].lang = "en"

\* C10: a walked file that is not in the ownership map is moved to the error
\* directory.
C10_UnownedToError ==
    \A h \in handled :
        h.owner = None =>
            /\ [name |-> h.name, att |-> h.att] \in error
            /\ h.name \notin Names(staging)

\* C11: when process_attachments is called again after a walk that moved
\* every file out of staging, no step of the second call moves a file, writes
\* a document or sends a mail: the directories and the mails stay as they were.
C11_RoutingIdempotent ==
    [][(again \/ again') => UNCHANGED <<staging, success, error, output, sent>>]_vars

\* the second call has walked staging after a first one that filled the
\* success and the error directory and sent mails
C11_Witness ==
    /\ again /\ pc = "process"
    /\ success # {} /\ error # {} /\ output # {}
    /\ MailsOfRun # {}

\* C12: no step of process_attachments changes config.ini, and the counter of
\* the owner of every handled file is still at or past the number of the file,
\* whatever became of the file.
C12_OrchestratorKeepsCounters ==
    /\ [][(pc \in {"intakeDone", "process"}) => disk' = disk]_vars
    /\ [](\A h \in handled :
             h.owner # None =>
                /\ disk.sec[h.owner].seq >= h.name[2]
                /\ disk.sec[h.owner].seq =
                      (IF seq0[h.owner] = NoSeq THEN 0 ELSE seq0[h.owner])
                      + Len(NumbersOf(h.owner, ThisRun)))

\* a file whose number intake stored in this run went to the error directory
C12_Witness ==
    /\ pc = "process"
    /\ \E h \in handled :
          /\ h.owner # None
          /\ h.route \in {"invalid", "unbuildable", "unreadable"}
          /\ seq0[h.owner] # disk.sec[h.owner].seq
          /\ disk.sec[h.owner].seq = h.name[2]

\* C13: a message becomes read only in a step taken at that message with all
\* its parts behind: every part with a payload was handed a number, is staged
\* under it and the number is in config.ini.
C13_ReadAfterAllParts ==
    [][\A i \in 1..Len(mailbox) :
          (~mailbox[i].seen /\ mailbox'[i].seen) =>
             /\ InMessage /\ unseen[cur] = i
             /\ \A j \in 1..Len(mailbox[i].parts) :
                   mailbox[i].parts[j] # "empty" =>
                      \E k \in 1..Len(ThisRun) :
                         /\ ThisRun[k].att = <<i, j>>
                         /\ mailbox[i].rp = ReturnPath(ThisRun[k].sender)
                         /\ [name |-> FileName(disk.sec[ThisRun[k].sender].code, ThisRun[k].seq),
                             att |-> <<i, j>>] \in staging
                         /\ disk.sec[ThisRun[k].sender].seq >= ThisRun[k].seq]_vars

\* a message with an empty part and a spreadsheet has been marked read
C13_Witness ==
    /\ pc = "fetch" /\ cur > 1
    /\ mailbox[unseen[cur - 1]].seen
    /\ mailbox[unseen[cur - 1]].parts = <<"empty", "ok">>
    /\ \E f \in staging : f.att = <<unseen[cur - 1], 2>>

\* where a label stands in a record
ColumnOf(rec, label) == CHOOSE i \in 1..Len(rec) : rec[i].label = label

\* C14: get_missing_fields returns the labels that carry '*' and have no
\* value, each once and in column order; it returns none exactly when every
\* label with '*' has a value; the record is left as it was.
C14_MissingFieldsExact ==
    /\ [](result.op = "get_missing_fields" =>
            LET m == result.missing
            IN /\ {m[i] : i \in 1..Len(m)} = AbsentRequired(record)
               /\ \A i \in 1..Len(m), j \in 1..Len(m) :
                     i < j => ColumnOf(record, m[i]) < ColumnOf(record, m[j])
               /\ (m = <<>>) <=>
                     \A k \in 1..Len(record) :
                        (\E t \in 1..Len(record[k].label) : record[k].label[t] = "*")
                           => record[k].value # Nan)
    /\ [][result'.op = "get_missing_fields" => record' = record]_vars

\* two required fields are reported, in a record that also has a required
\* field with a value and an optional one without
C14_Witness ==
    /\ result.op = "get_missing_fields"
    /\ result.missing = << <<"*", "Date">>, <<"Title", "*">> >>
    /\ \E k \in 1..Len(record) : record[k].label = <<"Notes">> /\ record[k].value = Nan

\* the fields of a record that have a value, in column order
PresentFields(rec) == SelectSeq(rec, LAMBDA f : f.value # Nan)

\* C16: for a record with no absent required field collection_to_xml returns
\* a root 'collection' with one child for every field that has a value, in
\* field order, named after the label of the field without its non-word
\* characters, and no other child.
C16_ElementPerPresentField ==
    (result.op = "collection_to_xml" /\ AbsentRequired(record) = {}) =>
        /\ result.xml.raised = NotRaised
        /\ result.xml.root = "collection"
        /\ Len(result.xml.children) = Len(PresentFields(record))
        /\ \A i \in 1..Len(result.xml.children) :
              result.xml.children[i].tag =
                 SelectSeq(PresentFields(record)[i].label, LAMBDA t : t \notin {"*", " ", ":"})

\* C15: a run whose mailbox options are incomplete fetches no message, stages
\* no file and sends no mail; and no SMTP exchange is made for an empty report
\* address: no mail goes to nobody and no run ends with the server's refusal
\* of a message to nobody.
C15_MissingConfigAborts ==
    /\ (pc # "idle" /\ ~config.mailbox) =>
          /\ unseen = <<>>
          /\ Len(ThisRun) = 0
          /\ DOMAIN attachments = {}
          /\ MailsOfRun = {}
    /\ \A m \in MailsOfRun : m.to # ""
    /\ lastEnd # "SMTPRecipientsRefused"

\* the sender whose registered code a file name starts with
OwnerOf(name) == CHOOSE s \in Addresses : Installed("", TRUE, AdminAddress).sec[s].code = name[1]

\* C17: every file in the success directory passed validation and has its
\* primary document and the documents of its secondary sheets in the output
\* directory; every success report and every admin notice is about a file
\* that is in the success directory with its primary document written, and
\* the admin notice names the sender that owns the file.
C17_SuccessAfterDocuments ==
    /\ \A f \in success :
          /\ AbsentRequired(Workbook(KindOf(f.att)).collection) = {}
          /\ \E d \in output : d.base = f.name /\ d.doc = "collection"
          /\ \A t \in 1..Len(Workbook(KindOf(f.att)).terms) :
                \E d \in output : d.base = f.name /\ d.doc = Workbook(KindOf(f.att)).terms[t]
    /\ \A i \in 1..Len(sent) :
          sent[i].subject \in SuccessSubjects =>
             /\ sent[i].file \in Names(success)
             /\ \E d \in output : d.base = sent[i].file /\ d.doc = "collection"
             /\ sent[i].sender = OwnerOf(sent[i].file)
             /\ sent[i].subject = "New files added" =>
                   \E j \in 1..(i - 1) :
                      /\ sent[j].subject = "Thank you for your email"
                      /\ sent[j].file = sent[i].file /\ sent[j].to = sent[i].sender

\* a file is in the success directory and the admin notice about it was sent
C17_Witness ==
    /\ pc = "process"
    /\ \E h \in handled :
          /\ h.route = "accepted"
          /\ [name |-> h.name, att |-> h.att] \in success
          /\ \E m \in MailsOfRun :
                m.subject = "New files added" /\ m.file = h.name /\ m.to = AdminAddress

\* the directories that hold a file with the payload of an attachment
AreasOf(att) ==
    {a \in {"staging", "success", "error"} :
        \E f \in (IF a = "staging" THEN staging ELSE IF a = "success" THEN success ELSE error) :
           f.att = att}

\* C18: every attachment save_attachment wrote is in exactly one of the
\* staging, success and error directories, and a file in the success or the
\* error directory stays there as it is.
C18_ExactlyOneArea ==
    /\ [](\A i \in 1..Len(assigned) : Cardinality(AreasOf(assigned[i].att)) = 1)
    /\ [][(\A f \in success : f \in success') /\ (\A f \in error : f \in error')]_vars

\* C19: a file that was in staging when a run started is in staging, as it
\* was, during that run and after it.
C19_LeftoverStaysStaged ==
    \A f \in staged0 : f \in staging

\* the sender of message i has a section in the configuration the run read
FromKnown(i) == \E s \in Known(config) : mailbox[i].rp = ReturnPath(s)

\* C20: a message becomes read only when its sender is registered, and when
\* a poll is over every message it found unread is read if its sender is
\* registered and unread if not; every message that is unread when a poll
\* starts is in the search result of the poll.
C20_ReadIffRegistered ==
    /\ [][\A i \in 1..Len(mailbox) :
            (~mailbox[i].seen /\ mailbox'[i].seen) => FromKnown(i)]_vars
    /\ []((pc = "intakeDone" /\ config.mailbox) =>
            \A k \in 1..Len(unseen) : mailbox[unseen[k]].seen <=> FromKnown(unseen[k]))
    /\ [][(pc = "idle" /\ pc' = "fetch") =>
            \A i \in 1..Len(mailbox) :
               ~mailbox[i].seen => \E k \in 1..Len(unseen') : unseen'[k] = i]_vars

\* a poll that found only the message of an unregistered sender, after an
\* earlier message of a registered sender was read, has left it unread again
C20_Witness ==
    /\ pc = "intakeDone" /\ config.mailbox
    /\ Len(mailbox) = 2
    /\ mailbox[1].seen /\ mailbox[1].rp = ReturnPath("a@x.org")
    /\ unseen = <<2>>
    /\ mailbox[2].rp = ReturnPath(Unregistered) /\ ~mailbox[2].seen
    /\ mailbox[2].parts = <<"ok">>
====
